---- MODULE Spec2Model ----
(***************************************************************************)
(* Model of overlap.py (AgamChopra/lung-segmentation): the SUV/ACT scale   *)
(* factor computed from a PET DICOM header, the PET wrapper object and its *)
(* cached resampled copy, the union of TIFF masks, and the assembly of the *)
(* (PET, CT, mask) batch.                                                  *)
(*                                                                         *)
(* Real numbers.  The factors are kept exact: a value                      *)
(*     (num / den) * 2 ^ (p / q)                                           *)
(* is the record [num, den, p, q] with both fractions in lowest terms, so  *)
(* exp(-ln 2 * t / h) is [1, 1, -t, h] reduced.  den = 0 stands for the    *)
(* inf / nan that numpy's division by zero yields.                         *)
(***************************************************************************)
EXTENDS Integers, Sequences, FiniteSets, TLC

VARIABLES
    pc,         \* which function has run ("start" before any call)
    \* ---- calc_factor / from_dicom_pet
    df,         \* the DICOM header read by dcmread
    type,       \* "SUV" or "ACT"
    rawpet,     \* pixel values of the series returned by read_image
    factor,     \* the factor returned
    calc,       \* the calc flag returned
    img_pet,    \* the scaled image returned
    warnings,   \* messages given to warnings.warn, in order
    calls,      \* functions invoked by the handler, in order
    locals,     \* calc_factor's local variables at its return
    \* ---- the PET object
    self,       \* the object's attributes
    created,    \* the attributes as __init__ left them
    refs,       \* the ct_scan of every resample_pet call so far, in order
    shown,      \* what the last show_overlay call did
    \* ---- get_tiff_masks_as_numpy
    paths,      \* the list of TIFF paths
    mask_shape, \* the shape asked for
    epsilon,    \* the threshold, a fraction <<numerator, denominator>>
    mask,       \* the array returned (<<>> before the return)
    mask_error, \* the exception that ended the call ("" for none)
    \* ---- generate_data
    root_path,      \* the path prefix
    patient_table,  \* the list of patient records
    data,           \* the batch so far: <<>> for None, <<array>> otherwise
    done,           \* how many records the loop has completed
    attempted,      \* the indices of the records whose processing started
    stacked,        \* the per-patient array made last (<<>> before the first)
    returned,       \* <<>> until the return, then <<the value returned>>
    error           \* the exception that ended the call ("" for none)

factorVars == <<df, type, rawpet, factor, calc, img_pet, warnings, calls, locals>>
petVars == <<self, created, refs, shown>>
maskVars == <<paths, mask_shape, epsilon, mask, mask_error>>
dataVars == <<root_path, patient_table, data, done, attempted, stacked, returned, error>>
vars == <<pc, factorVars, petVars, maskVars, dataVars>>

----------------------------------------------------------------------------
(* Arithmetic helpers *)

\* F applied to a value computed once: the local variable of a function body
With(v, F(_)) == F(v)

Abs(n) == IF n < 0 THEN -n ELSE n

RECURSIVE GCD(_, _)
GCD(m, n) == IF n = 0 THEN Abs(m) ELSE GCD(n, m % n)

\* num / den in lowest terms; x / 0 is inf (1/0) and 0 / 0 is nan (0/0)
Ratio(n, d) ==
    IF d = 0 THEN [num |-> IF n = 0 THEN 0 ELSE 1, den |-> 0]
    ELSE LET g == GCD(Abs(n), Abs(d)) IN [num |-> n \div g, den |-> d \div g]

\* the real number (n / d) * 2 ^ (p / q)
Real(n, d, p, q) ==
    LET r == Ratio(n, d)
        e == Ratio(p, q)
    IN  [num |-> r.num, den |-> r.den, p |-> e.num, q |-> e.den]

Number(n) == Real(n, 1, 0, 1)

----------------------------------------------------------------------------
(* DICOM header fields *)

\* a decimal-string (DS) attribute: missing, text float() rejects, or a number
Absent == [k |-> "absent", v |-> 0]
Garbage == [k |-> "garbage", v |-> 0]
Num(n) == [k |-> "num", v |-> n]

\* a time (TM) attribute: the text HHMMSS followed by "." and frac when frac
\* is not empty
NoTime == [present |-> FALSE, hh |-> 0, mm |-> 0, ss |-> 0, frac |-> <<>>]
Time(h, m, s, f) == [present |-> TRUE, hh |-> h, mm |-> m, ss |-> s, frac |-> f]

\* a private tag in to_json_dict(): missing, present without "Value", or
\* present with Value[0] = v
NoTag == [k |-> "absent", v |-> 0]
EmptyTag == [k |-> "novalue", v |-> 0]
Tag(n) == [k |-> "value", v |-> n]

\* an item of RadiopharmaceuticalInformationSequence
Item(t, h, d) ==
    [RadiopharmaceuticalStartTime |-> t, RadionuclideHalfLife |-> h,
     RadionuclideTotalDose |-> d]

Header(w, acq, seq, t0, t9) ==
    [PatientWeight |-> w, AcquisitionTime |-> acq,
     RadiopharmaceuticalInformationSequence |-> seq,
     t70531000 |-> t0, t70531009 |-> t9]

----------------------------------------------------------------------------
(* Exact arithmetic on the values [num, den, p, q] *)

Norm0(x) == IF x.num = 0 \/ x.den = 0 THEN [x EXCEPT !.p = 0, !.q = 1] ELSE x

Mul(x, y) ==
    Norm0(Real(x.num * y.num, x.den * y.den, x.p * y.q + y.p * x.q, x.q * y.q))

Div(x, y) ==
    Norm0(Real(x.num * y.den, x.den * y.num, x.p * y.q - y.p * x.q, x.q * y.q))

\* np.exp(-np.log(2) * (t / h)), h > 0
ExpDecay(t, h) == Real(1, 1, -t, h)

----------------------------------------------------------------------------
(* datetime.strptime(s, '%H%M%S.%f') and datetime subtraction *)

MicrosPerSecond == 1000000
SecondsPerDay == 86400

RECURSIVE DigitsValue(_)
DigitsValue(f) ==
    IF f = <<>> THEN 0 ELSE 10 * DigitsValue(SubSeq(f, 1, Len(f) - 1)) + f[Len(f)]

RECURSIVE Pow10(_)
Pow10(n) == IF n = 0 THEN 1 ELSE 10 * Pow10(n - 1)

\* %f takes one to six digits and pads them on the right to microseconds;
\* a text without the fraction does not match the format
strptime(t) ==
    IF t.present /\ Len(t.frac) \in 1..6 /\ t.hh \in 0..23 /\ t.mm \in 0..59
       /\ t.ss \in 0..59
    THEN [raised |-> FALSE, hour |-> t.hh, minute |-> t.mm, second |-> t.ss,
          microsecond |-> DigitsValue(t.frac) * Pow10(6 - Len(t.frac))]
    ELSE [raised |-> TRUE, hour |-> 0, minute |-> 0, second |-> 0, microsecond |-> 0]

\* datetime.__sub__ of two datetimes of the same date (strptime's 1900-01-01):
\* timedelta(0, secs1 - secs2, us1 - us2), normalised so that
\* 0 <= microseconds < 10^6 and 0 <= seconds < 86400
timedelta_sub(x, y) ==
    LET secs1 == x.second + x.minute * 60 + x.hour * 3600
        secs2 == y.second + y.minute * 60 + y.hour * 3600
        us == x.microsecond - y.microsecond
        s == (secs1 - secs2) + (us \div MicrosPerSecond)
    IN  [days |-> s \div SecondsPerDay, seconds |-> s % SecondsPerDay,
         microseconds |-> us % MicrosPerSecond]

----------------------------------------------------------------------------
(* calc_factor *)

\* a wrong default weight (70 kg)
DefaultWeight_70kg == 70 * 1000

DefaultWeight == 75000
FallbackElapsed == 6300         \* 1.75 * 3600
FallbackHalfLife == 6588
FallbackDose == 420000000

WeightWarning == "Patient Weight Not Present. Taking 75Kg"
DataWarning == "Not enough data available, taking average values"
ScaleWarning ==
    "Scale factor not available in DICOMs. Calculating based on metadata, may contain errors"

\* the dose read left out of the try block: a missing dose no longer sends
\* the time and half-life to the fallback
MeasuredTry_dose_unchecked(h) ==
    LET scan == strptime(h.AcquisitionTime)
        seq == h.RadiopharmaceuticalInformationSequence
        it == IF seq = <<>> THEN Item(NoTime, Absent, Absent) ELSE seq[1]
        inj == strptime(it.RadiopharmaceuticalStartTime)
        hl == it.RadionuclideHalfLife
        dose == it.RadionuclideTotalDose
        delta == timedelta_sub(scan, inj)
        raised == \/ scan.raised
                  \/ seq = <<>>
                  \/ inj.raised
                  \/ hl.k # "num"
                  \/ hl.v = 0
    IN  [raised |-> raised, seconds |-> delta.seconds, half_life |-> hl.v,
         injected_dose |-> dose.v]

\* the second try block up to the first exception: the four reads and the
\* division (seconds / half_life raises ZeroDivisionError for 0.0)
MeasuredTry(h) ==
    LET scan == strptime(h.AcquisitionTime)
        seq == h.RadiopharmaceuticalInformationSequence
        it == IF seq = <<>> THEN Item(NoTime, Absent, Absent) ELSE seq[1]
        inj == strptime(it.RadiopharmaceuticalStartTime)
        hl == it.RadionuclideHalfLife
        dose == it.RadionuclideTotalDose
        delta == timedelta_sub(scan, inj)
        raised == \/ scan.raised
                  \/ seq = <<>>
                  \/ inj.raised
                  \/ hl.k # "num"
                  \/ dose.k # "num"
                  \/ hl.v = 0
    IN  [raised |-> raised, seconds |-> delta.seconds, half_life |-> hl.v,
         injected_dose |-> dose.v]

\* the mode test dropped: the SUV factor is returned in every mode
calc_factor_always_suv(h, ty) ==
    With(MeasuredTry(h), LAMBDA m :
    LET wOk == h.PatientWeight.k = "num"
        weight == IF wOk THEN h.PatientWeight.v * 1000 ELSE DefaultWeight
        a == IF ~m.raised THEN ExpDecay(m.seconds, m.half_life)
             ELSE ExpDecay(FallbackElapsed, FallbackHalfLife)
        injected_dose_decay ==
            IF ~m.raised THEN Mul(a, Number(m.injected_dose))
            ELSE Mul(Number(FallbackDose), a)
        suv == Div(Number(weight), injected_dose_decay)
    IN  [ret |-> suv,
         warnings |-> (IF wOk THEN <<>> ELSE <<WeightWarning>>)
                      \o (IF m.raised THEN <<DataWarning>> ELSE <<>>),
         weight |-> weight,
         measured |-> ~m.raised,
         seconds |-> IF m.raised THEN FallbackElapsed ELSE m.seconds,
         half_life |-> IF m.raised THEN FallbackHalfLife ELSE m.half_life,
         dose |-> IF m.raised THEN FallbackDose ELSE m.injected_dose,
         a |-> a,
         injected_dose_decay |-> injected_dose_decay])

calc_factor(h, ty) ==
    With(MeasuredTry(h), LAMBDA m :
    LET wOk == h.PatientWeight.k = "num"
        weight == IF wOk THEN h.PatientWeight.v * 1000 ELSE DefaultWeight
        a == IF ~m.raised THEN ExpDecay(m.seconds, m.half_life)
             ELSE ExpDecay(FallbackElapsed, FallbackHalfLife)
        injected_dose_decay ==
            IF ~m.raised THEN Mul(a, Number(m.injected_dose))
            ELSE Mul(Number(FallbackDose), a)
        suv == Div(Number(weight), injected_dose_decay)
    IN  [ret |-> IF ty = "SUV" THEN suv ELSE Div(Number(1), a),
         warnings |-> (IF wOk THEN <<>> ELSE <<WeightWarning>>)
                      \o (IF m.raised THEN <<DataWarning>> ELSE <<>>),
         weight |-> weight,
         measured |-> ~m.raised,
         seconds |-> IF m.raised THEN FallbackElapsed ELSE m.seconds,
         half_life |-> IF m.raised THEN FallbackHalfLife ELSE m.half_life,
         dose |-> IF m.raised THEN FallbackDose ELSE m.injected_dose,
         a |-> a,
         injected_dose_decay |-> injected_dose_decay])

\* PET.calc_factor, the static method: the same statements as calc_factor
PET_calc_factor(h, ty) ==
    With(MeasuredTry(h), LAMBDA m :
    LET wOk == h.PatientWeight.k = "num"
        weight == IF wOk THEN h.PatientWeight.v * 1000 ELSE DefaultWeight
        a == IF ~m.raised THEN ExpDecay(m.seconds, m.half_life)
             ELSE ExpDecay(FallbackElapsed, FallbackHalfLife)
        injected_dose_decay ==
            IF ~m.raised THEN Mul(a, Number(m.injected_dose))
            ELSE Mul(Number(FallbackDose), a)
        suv == Div(Number(weight), injected_dose_decay)
    IN  [ret |-> IF ty = "SUV" THEN suv ELSE Div(Number(1), a),
         warnings |-> (IF wOk THEN <<>> ELSE <<WeightWarning>>)
                      \o (IF m.raised THEN <<DataWarning>> ELSE <<>>),
         weight |-> weight,
         measured |-> ~m.raised,
         seconds |-> IF m.raised THEN FallbackElapsed ELSE m.seconds,
         half_life |-> IF m.raised THEN FallbackHalfLife ELSE m.half_life,
         dose |-> IF m.raised THEN FallbackDose ELSE m.injected_dose,
         a |-> a,
         injected_dose_decay |-> injected_dose_decay])

----------------------------------------------------------------------------
(* Images and arrays *)

\* Index tuples of an array of the given shape (1-based here, 0-based in numpy)
MaxDim(shape) == CHOOSE m \in {shape[k] : k \in DOMAIN shape} \cup {0} :
                    \A k \in DOMAIN shape : shape[k] <= m
Indices(shape) ==
    {ix \in [DOMAIN shape -> 1..MaxDim(shape)] : \A k \in DOMAIN shape : ix[k] <= shape[k]}

\* A SimpleITK image, held in the index order of its numpy array (z, y, x):
\* its grid is the shape and the position of its first slice along z (unit
\* spacing, identity direction); pix gives the pixel at each index.
Image(o, shape, px) == [origin |-> o, shape |-> shape, pix |-> px]
NoImage == Image(0, <<0, 0, 0>>, <<>>)

\* sitk.GetArrayFromImage
GetArrayFromImage(img) == [shape |-> img.shape, at |-> img.pix]

\* sitk.Resample(img, ref) with the defaults: the result lies on ref's grid;
\* a point of that grid inside img takes img's pixel there (the grids differ
\* by whole slices), a point outside takes the default pixel value 0.
Resample(img, ref) ==
    Image(ref.origin, ref.shape,
          [ix \in Indices(ref.shape) |->
              LET z == ix[1] + ref.origin - img.origin IN
              IF z \in 1..img.shape[1] /\ ix[2] <= img.shape[2] /\ ix[3] <= img.shape[3]
              THEN img.pix[<<z, ix[2], ix[3]>>]
              ELSE Number(0)])

----------------------------------------------------------------------------
(* numpy arrays: [shape, at], at a function of the index tuples *)

Array(shape, f) == [shape |-> shape, at |-> f]

\* np.zeros(shape)
zeros(shape) == Array(shape, [ix \in Indices(shape) |-> 0])

\* np.flip(a, 0)
flip0(a) ==
    Array(a.shape, [ix \in Indices(a.shape) |-> a.at[[ix EXCEPT ![1] = a.shape[1] + 1 - @]]])

\* whether b can be broadcast to a's shape by an in-place a += b (arrays of
\* the same number of axes): each axis of b has a's length or length 1
Broadcastable(a, b) ==
    /\ Len(b.shape) = Len(a.shape)
    /\ \A k \in DOMAIN a.shape : b.shape[k] = a.shape[k] \/ b.shape[k] = 1

\* a += b, for Broadcastable(a, b)
iadd(a, b) ==
    Array(a.shape,
          [ix \in Indices(a.shape) |->
              a.at[ix] + b.at[[k \in DOMAIN ix |-> IF b.shape[k] = 1 THEN 1 ELSE ix[k]]]])

\* np.where(a > epsilon, 1, 0), epsilon the fraction eps[1] / eps[2]
where_gt(a, eps) ==
    Array(a.shape, [ix \in Indices(a.shape) |-> IF a.at[ix] * eps[2] > eps[1] THEN 1 ELSE 0])

\* np.array([a, b, c]) of three arrays of one shape: a new leading axis
stack3(a, b, c) ==
    Array(<<3>> \o a.shape,
          [ix \in Indices(<<3>> \o a.shape) |->
              LET rest == SubSeq(ix, 2, Len(ix)) IN
              IF ix[1] = 1 THEN a.at[rest] ELSE IF ix[1] = 2 THEN b.at[rest] ELSE c.at[rest]])

\* the axes left as they are
moveaxis_none(a) == a

\* np.moveaxis(a, 0, 1): axis 0 becomes axis 1
moveaxis_0_1(a) ==
    LET swap(t) == [k \in DOMAIN t |-> IF k = 1 THEN t[2] ELSE IF k = 2 THEN t[1] ELSE t[k]]
    IN  Array(swap(a.shape), [ix \in Indices(swap(a.shape)) |-> a.at[swap(ix)]])

\* whether np.concatenate([a, b], 0) accepts the shapes: the same number of
\* axes and the same lengths on every axis but the first
Concatenable(a, b) ==
    /\ Len(a.shape) = Len(b.shape)
    /\ \A k \in DOMAIN a.shape : k > 1 => a.shape[k] = b.shape[k]

\* the new array put in front of the batch
concatenate0_prepend(a, b) ==
    LET shape == [a.shape EXCEPT ![1] = a.shape[1] + b.shape[1]]
    IN  Array(shape,
              [ix \in Indices(shape) |->
                  IF ix[1] <= b.shape[1] THEN b.at[ix]
                  ELSE a.at[[ix EXCEPT ![1] = @ - b.shape[1]]]])

\* np.concatenate([a, b], 0), for Concatenable(a, b)
concatenate0(a, b) ==
    LET shape == [a.shape EXCEPT ![1] = a.shape[1] + b.shape[1]]
    IN  Array(shape,
              [ix \in Indices(shape) |->
                  IF ix[1] <= a.shape[1] THEN a.at[ix]
                  ELSE b.at[[ix EXCEPT ![1] = @ - a.shape[1]]]])

\* x - y and x <= y for pixels of one scaled image: apart from zeros they
\* carry the same power of two
Sub(x, y) ==
    IF y.num = 0 THEN x
    ELSE IF x.num = 0 THEN [y EXCEPT !.num = -y.num]
    ELSE Norm0(Real(x.num * y.den - y.num * x.den, x.den * y.den, x.p, x.q))

LessEq(x, y) == x.num * y.den <= y.num * x.den

\* norm: (x - np.min(x)) / (np.max(x) - np.min(x)); a constant array gives
\* 0 / 0 everywhere
norm(x) ==
    LET vals == {x.at[ix] : ix \in Indices(x.shape)}
        lo == CHOOSE v \in vals : \A w \in vals : LessEq(v, w)
        hi == CHOOSE v \in vals : \A w \in vals : LessEq(w, v)
    IN  Array(x.shape, [ix \in Indices(x.shape) |-> Div(Sub(x.at[ix], lo), Sub(hi, lo))])

----------------------------------------------------------------------------
(* from_dicom_pet *)

NoLocals == [measured |-> FALSE]
NoValue == Number(0)

\* the two private tags taken for each other
VendorTag_swapped(h, ty) == IF ty = "SUV" THEN h.t70531009 ELSE h.t70531000

\* df.to_json_dict()[tag]["Value"][0]: KeyError or IndexError unless the tag
\* is there with a value
VendorTag(h, ty) == IF ty = "SUV" THEN h.t70531000 ELSE h.t70531009

\* sitk.Abs(sitk.Cast(pet, sitkFloat32) * factor), pixel by pixel
ScaleImage(pet, f) ==
    [pet EXCEPT !.pix =
        [i \in DOMAIN pet.pix |->
            LET x == Mul(Number(pet.pix[i]), f) IN [x EXCEPT !.num = Abs(x.num)]]]

from_dicom_pet(h, ty, pet) ==
    With(calc_factor(h, ty), LAMBDA cf :
    LET tag == VendorTag(h, ty)
        found == tag.k = "value"
        f == IF found THEN Number(tag.v) ELSE cf.ret
    IN  [img_pet |-> ScaleImage(pet, f),
         df |-> h,
         factor |-> f,
         calc |-> ~found,
         metadata |-> <<>>,
         warnings |-> IF found THEN <<>> ELSE <<ScaleWarning>> \o cf.warnings,
         calls |-> <<"read_image", "dcmread">>
                   \o (IF found THEN <<>> ELSE <<"calc_factor">>),
         locals |-> IF found THEN NoLocals ELSE cf])

\* PET.from_dicom_pet, the class method: the same statements, with
\* cls.calc_factor, and the result wrapped by cls(...)
PET_from_dicom_pet(h, ty, pet) ==
    With(PET_calc_factor(h, ty), LAMBDA cf :
    LET tag == VendorTag(h, ty)
        found == tag.k = "value"
        f == IF found THEN Number(tag.v) ELSE cf.ret
    IN  [img_pet |-> ScaleImage(pet, f),
         df |-> h,
         factor |-> f,
         calc |-> ~found,
         metadata |-> <<>>,
         warnings |-> IF found THEN <<>> ELSE <<ScaleWarning>> \o cf.warnings,
         calls |-> <<"read_image", "dcmread">>
                   \o (IF found THEN <<>> ELSE <<"PET.calc_factor">>),
         locals |-> IF found THEN NoLocals ELSE cf])

----------------------------------------------------------------------------
(* class PET *)

\* PET.__init__; resampled_pt is <<>> for None and <<image>> otherwise, the
\* metadata dictionary is a function of its keys
PET_init(image, header, f, c, metadata) ==
    [img_pet |-> image, df |-> header, factor |-> f, calc |-> c,
     resampled_pt |-> <<>>,
     metadata |-> IF metadata # <<>> THEN metadata ELSE <<>>]

\* the resampled copy made once and kept: later calls return the first result
resample_pet_keep_first(slf, ct_scan) ==
    LET r == IF slf.resampled_pt = <<>> THEN Resample(slf.img_pet, ct_scan)
             ELSE slf.resampled_pt[1]
    IN  [self |-> [slf EXCEPT !.resampled_pt = <<r>>], ret |-> r]

\* PET.resample_pet
resample_pet(slf, ct_scan) ==
    LET r == Resample(slf.img_pet, ct_scan)
    IN  [self |-> [slf EXCEPT !.resampled_pt = <<r>>], ret |-> r]

\* PET.get_metadata: the dictionary rebuilt from the header, the factor and
\* the calc flag
get_metadata(slf) ==
    LET h == slf.df
        seq == h.RadiopharmaceuticalInformationSequence
        it == IF seq = <<>> THEN Item(NoTime, Absent, Absent) ELSE seq[1]
        scan == strptime(h.AcquisitionTime)
        inj == strptime(it.RadiopharmaceuticalStartTime)
        m0 == IF h.PatientWeight.k = "num"
              THEN [key \in {"weight"} |-> Number(h.PatientWeight.v)] ELSE <<>>
        m1 == IF scan.raised THEN m0 ELSE m0 @@ ("scan_time" :> scan)
        m2 == IF scan.raised \/ seq = <<>> \/ inj.raised THEN m1
              ELSE m1 @@ ("injection_time" :> inj)
        m3 == IF "injection_time" \notin DOMAIN m2 \/ it.RadionuclideHalfLife.k # "num"
              THEN m2 ELSE m2 @@ ("half_life" :> Number(it.RadionuclideHalfLife.v))
        m4 == IF "half_life" \notin DOMAIN m3 \/ it.RadionuclideTotalDose.k # "num"
              THEN m3 ELSE m3 @@ ("injected_dose" :> Number(it.RadionuclideTotalDose.v))
        md == m4 @@ ("factor" :> slf.factor) @@ ("Values_Assumed" :> slf.calc)
    IN  [self |-> [slf EXCEPT !.metadata = md], ret |-> md]

\* PET.show_overlay up to the first plot: the resampling, then slice
\* slice_number of the resampled array (IndexError outside -Z .. Z-1)
show_overlay(slf, ct_scan, slice_number) ==
    LET r == resample_pet(slf, ct_scan)
        pt_arr == GetArrayFromImage(r.ret)
        Z == pt_arr.shape[1]
    IN  [self |-> r.self,
         raised |-> ~(slice_number \in -Z .. Z - 1),
         slice |-> IF slice_number \in 0 .. Z - 1 THEN slice_number + 1
                   ELSE IF slice_number \in -Z .. -1 THEN Z + slice_number + 1
                   ELSE 0]

----------------------------------------------------------------------------
(* The files: DICOM series directories and TIFF masks.  A path is the *)
(* sequence of the strings it was concatenated from.                  *)

\* a volume from its rows: rows[z][x] is the pixel at slice z, row 1, column x
Rows(rows) ==
    LET shape == <<Len(rows), 1, Len(rows[1])>>
    IN  [ix \in Indices(shape) |-> rows[ix[1]][ix[3]]]
Vol(o, rows) == Image(o, <<Len(rows), 1, Len(rows[1])>>, Rows(rows))
Tiff(rows) == Array(<<Len(rows), 1, Len(rows[1])>>, Rows(rows))

Root == <<"E:/ML/">>

PetHeader ==
    Header(Num(60), Time(11, 45, 0, <<0>>),
           <<Item(Time(10, 0, 0, <<0>>), Num(3150), Num(1000))>>, Tag(2), NoTag)
CtHeader == Header(Num(60), Time(11, 40, 0, <<0>>), <<>>, NoTag, NoTag)

Dicom(h, image) == [kind |-> "dicom", header |-> h, image |-> image]
TiffFile(a) == [kind |-> "tiff", array |-> a]
NoFile == [kind |-> "none"]

\* what is stored under a path
FS(path) ==
    CASE path = Root \o <<"A_PT">> -> Dicom(PetHeader, Vol(0, <<<<-4, 1>>, <<2, 0>>>>))
      [] path = Root \o <<"A_CT">> -> Dicom(CtHeader, Vol(-1, <<<<9, 9>>, <<3, 5>>, <<7, 1>>>>))
      [] path = Root \o <<"B_PT">> -> Dicom(PetHeader, Vol(0, <<<<6, 2>>>>))
      [] path = Root \o <<"B_CT">> -> Dicom(CtHeader, Vol(0, <<<<1, 8>>, <<2, 2>>>>))
      [] path = Root \o <<"C_PT">> -> Dicom(PetHeader, Vol(0, <<<<5>>, <<1>>>>))
      [] path = Root \o <<"L2", ".tif">> -> TiffFile(Tiff(<<<<1, 0>>, <<0, 0>>>>))
      [] path = Root \o <<"N2", ".tif">> -> TiffFile(Tiff(<<<<0, 0>>, <<0, 1>>>>))
      [] path = Root \o <<"R2", ".tif">> -> TiffFile(Tiff(<<<<1, 0>>, <<1, 1>>>>))
      [] path = Root \o <<"H2", ".tif">> -> TiffFile(Tiff(<<<<0, 255>>, <<0, 0>>>>))
      [] path = Root \o <<"L1", ".tif">> -> TiffFile(Tiff(<<<<1, 0>>>>))
      [] path = Root \o <<"M3", ".tif">> -> TiffFile(Tiff(<<<<1, 0>>, <<0, 0>>, <<0, 1>>>>))
      [] path = Root \o <<"K2", ".tif">> -> TiffFile(Tiff(<<<<1>>, <<0>>>>))
      [] OTHER -> NoFile

----------------------------------------------------------------------------
(* get_tiff_masks_as_numpy *)

DefaultEpsilon == <<1, 2>>      \* 0.5

\* the running mask replaced by the image instead of added to
accumulate_overwrite(m, image) == flip0(image)

\* one pass of the loop body: mask += np.flip(io.imread(path), 0)
accumulate(m, image) == iadd(m, flip0(image))

\* the loop over paths: io.imread raises for a path that is no TIFF file, +=
\* raises for an image that cannot be broadcast to the mask
RECURSIVE MaskLoop(_, _)
MaskLoop(m, ps) ==
    IF ps = <<>> THEN [raised |-> "", mask |-> m]
    ELSE LET f == FS(Head(ps)) IN
         IF f.kind # "tiff" THEN [raised |-> "FileNotFoundError", mask |-> m]
         ELSE IF ~Broadcastable(m, f.array) THEN [raised |-> "ValueError", mask |-> m]
         ELSE MaskLoop(accumulate(m, f.array), Tail(ps))

get_tiff_masks_as_numpy(ps, shape, eps) ==
    With(MaskLoop(zeros(shape), ps), LAMBDA r :
        IF r.raised # "" THEN [raised |-> r.raised, ret |-> <<>>]
        ELSE [raised |-> "", ret |-> <<where_gt(r.mask, eps)>>])

----------------------------------------------------------------------------
(* get_reg_numpy_B2A and the body of generate_data's loop *)

\* from_dicom_pet(path) with the default type "SUV": read_image and dcmread
\* raise unless path is a DICOM series directory
from_dicom_pet_path(path) ==
    With(FS(path), LAMBDA f :
    IF f.kind # "dicom" THEN [raised |-> "RuntimeError"]
    ELSE [raised |-> ""] @@ from_dicom_pet(f.header, "SUV", f.image))

get_reg_numpy_B2A(path_A, path_B) ==
    With(from_dicom_pet_path(path_A), LAMBDA a :
    IF a.raised # "" THEN [raised |-> a.raised]
    ELSE
    With(from_dicom_pet_path(path_B), LAMBDA b :
    IF b.raised # "" THEN [raised |-> b.raised]
    ELSE LET B_warper == PET_init(b.img_pet, b.df, b.factor, b.calc, b.metadata)
             img_B == resample_pet(B_warper, a.img_pet).ret
         IN  [raised |-> "",
              A |-> norm(GetArrayFromImage(a.img_pet)),
              B |-> norm(GetArrayFromImage(img_B))]))

\* an integer array as np.array() stores it next to float arrays
AsFloat(a) == Array(a.shape, [ix \in Indices(a.shape) |-> Number(a.at[ix])])

\* the (PET, CT, mask) arrays of one patient record <<ct, pet, L, N, R>>
PatientArrays(root, patient) ==
    LET path_ct == root \o <<patient[1]>>
        path_pet == root \o <<patient[2]>>
        mask_L_lung == root \o <<patient[3], ".tif">>
        mask_N_lung == root \o <<patient[4], ".tif">>
        mask_R_lung == root \o <<patient[5], ".tif">>
    IN  With(get_reg_numpy_B2A(path_pet, path_ct), LAMBDA reg :
        IF reg.raised # "" THEN [raised |-> reg.raised]
        ELSE
        With(get_tiff_masks_as_numpy(<<mask_L_lung, mask_N_lung, mask_R_lung>>,
                                     reg.A.shape, DefaultEpsilon), LAMBDA m :
        IF m.raised # "" THEN [raised |-> m.raised]
        ELSE [raised |-> "", PET |-> reg.A, CT |-> reg.B, mask |-> AsFloat(m.ret[1])]))

\* one pass of the loop body on the batch d (<<>> for None)
generate_data_body(root, d, patient) ==
    With(PatientArrays(root, patient), LAMBDA t :
    IF t.raised # "" THEN [raised |-> t.raised]
    ELSE
    With(moveaxis_0_1(stack3(t.PET, t.CT, t.mask)), LAMBDA new :
    IF d = <<>> THEN [raised |-> "", data |-> new, stacked |-> new]
    ELSE IF ~Concatenable(d[1], new) THEN [raised |-> "ValueError"]
    ELSE [raised |-> "", data |-> concatenate0(d[1], new), stacked |-> new]))

----------------------------------------------------------------------------
(* The headers, modes and images the factor functions are run on *)

Weights == {Absent, Garbage, Num(60), Num(75)}
Times ==
    {NoTime,
     Time(10, 0, 0, <<>>),          \* "100000": no fraction
     Time(10, 0, 0, <<0>>),
     Time(10, 0, 1, <<5>>),
     Time(11, 45, 0, <<0>>)}
HalfLives == {Absent, Num(0), Num(6588), Num(3150)}
Doses == {Absent, Num(0), Num(1000)}
ItemSequences == {<<>>} \cup {<<Item(t, h, d)>> : t \in Times, h \in HalfLives, d \in Doses}
Tags1000 == {NoTag, EmptyTag, Tag(2)}
Tags1009 == {NoTag, EmptyTag, Tag(3)}
Headers ==
    {Header(w, acq, seq, t0, t9) :
        w \in Weights, acq \in Times, seq \in ItemSequences,
        t0 \in Tags1000, t9 \in Tags1009}
Types == {"SUV", "ACT"}
RawImages == {Image(0, <<2, 1, 1>>, [ix \in Indices(<<2, 1, 1>>) |-> IF ix[1] = 1 THEN -2 ELSE 3])}

\* The variables of the parts that a specification does not exercise
NotShown == [raised |-> FALSE, slice |-> 0]

IdlePET ==
    /\ self = PET_init(NoImage, Header(Absent, NoTime, <<>>, NoTag, NoTag), NoValue, FALSE, <<>>)
    /\ created = self
    /\ refs = <<>>
    /\ shown = NotShown

IdleFactor ==
    /\ df = Header(Absent, NoTime, <<>>, NoTag, NoTag)
    /\ type = "SUV"
    /\ rawpet = NoImage
    /\ factor = NoValue
    /\ calc = FALSE
    /\ img_pet = NoImage
    /\ warnings = <<>>
    /\ calls = <<>>
    /\ locals = NoLocals

IdleMask ==
    /\ paths = <<>>
    /\ mask_shape = <<0, 0, 0>>
    /\ epsilon = DefaultEpsilon
    /\ mask = <<>>
    /\ mask_error = ""

IdleData ==
    /\ root_path = <<>>
    /\ patient_table = <<>>
    /\ data = <<>>
    /\ done = 0
    /\ attempted = <<>>
    /\ stacked = <<>>
    /\ returned = <<>>
    /\ error = ""

InitFactor ==
    /\ pc = "start"
    /\ df \in Headers
    /\ type \in Types
    /\ rawpet \in RawImages
    /\ factor = NoValue
    /\ calc = FALSE
    /\ img_pet = NoImage
    /\ warnings = <<>>
    /\ calls = <<>>
    /\ locals = NoLocals
    /\ IdlePET
    /\ IdleMask
    /\ IdleData

Call_calc_factor ==
    /\ pc = "start"
    /\ \E r \in {calc_factor(df, type)} :
        /\ factor' = r.ret
        /\ warnings' = r.warnings
        /\ locals' = r
    /\ calls' = <<"calc_factor">>
    /\ pc' = "calc_factor"
    /\ UNCHANGED <<df, type, rawpet, calc, img_pet, petVars, maskVars, dataVars>>

Call_PET_calc_factor ==
    /\ pc = "start"
    /\ \E r \in {PET_calc_factor(df, type)} :
        /\ factor' = r.ret
        /\ warnings' = r.warnings
        /\ locals' = r
    /\ calls' = <<"PET.calc_factor">>
    /\ pc' = "PET.calc_factor"
    /\ UNCHANGED <<df, type, rawpet, calc, img_pet, petVars, maskVars, dataVars>>

Call_from_dicom_pet ==
    /\ pc = "start"
    /\ \E r \in {from_dicom_pet(df, type, rawpet)} :
        /\ factor' = r.factor
        /\ calc' = r.calc
        /\ img_pet' = r.img_pet
        /\ warnings' = r.warnings
        /\ calls' = r.calls
        /\ locals' = r.locals
    /\ pc' = "from_dicom_pet"
    /\ UNCHANGED <<df, type, rawpet, petVars, maskVars, dataVars>>

Call_PET_from_dicom_pet ==
    /\ pc = "start"
    /\ \E r \in {PET_from_dicom_pet(df, type, rawpet)} :
        /\ factor' = r.factor
        /\ calc' = r.calc
        /\ img_pet' = r.img_pet
        /\ warnings' = r.warnings
        /\ calls' = r.calls
        /\ locals' = r.locals
    /\ pc' = "PET.from_dicom_pet"
    /\ UNCHANGED <<df, type, rawpet, petVars, maskVars, dataVars>>

NextFactor ==
    \/ Call_calc_factor
    \/ Call_PET_calc_factor
    \/ Call_from_dicom_pet
    \/ Call_PET_from_dicom_pet

SpecFactor == InitFactor /\ [][NextFactor]_vars

----------------------------------------------------------------------------
(* Claims about the scale factor *)

AfterCalcFactor == pc \in {"calc_factor", "PET.calc_factor"}
AfterFromDicomPet == pc \in {"from_dicom_pet", "PET.from_dicom_pet"}

\* the function that ran, applied to another header
SameFunction(h, ty) ==
    IF pc = "calc_factor" THEN calc_factor(h, ty) ELSE PET_calc_factor(h, ty)

WithWeightDose(h, w, d) ==
    [h EXCEPT !.PatientWeight = w,
              !.RadiopharmaceuticalInformationSequence =
                  IF @ = <<>> THEN @ ELSE <<[@[1] EXCEPT !.RadionuclideTotalDose = d]>>]

DoseOf(h) ==
    IF h.RadiopharmaceuticalInformationSequence = <<>> THEN Absent
    ELSE h.RadiopharmaceuticalInformationSequence[1].RadionuclideTotalDose

\* C4: from_dicom_pet (function and class method): when the private tag of
\* the mode (70531000 for SUV, 70531009 otherwise) carries a value, the factor
\* is that value, calc_factor is not invoked, nothing is warned and calc is
\* False; otherwise calc_factor is invoked, its result is the factor, a warning
\* is given and calc is True.
C4_FlagMatchesPath ==
    AfterFromDicomPet =>
        LET tag == IF type = "SUV" THEN df.t70531000 ELSE df.t70531009
            computed == \E i \in DOMAIN calls : calls[i] \in {"calc_factor", "PET.calc_factor"}
        IN  IF tag.k = "value"
            THEN /\ factor = Number(tag.v)
                 /\ ~computed
                 /\ warnings = <<>>
                 /\ calc = FALSE
            ELSE /\ computed
                 /\ factor = locals.ret
                 /\ warnings # <<>> /\ warnings[1] = ScaleWarning
                 /\ calc = TRUE

C4_Witness ==
    /\ pc = "PET.from_dicom_pet"
    /\ type = "ACT"
    /\ df.t70531009.k = "value"
    /\ df.t70531000.k = "absent"
    /\ calc = FALSE
    /\ factor = Number(3)

\* C5 (as stated): in ACT mode calc_factor returns 1 / decay_factor, and the
\* result is the same for every header that differs from this one only in
\* PatientWeight and RadionuclideTotalDose, in value or in presence.
C5_ActIndependentOfWeightAndDose ==
    (AfterCalcFactor /\ type = "ACT") =>
        /\ factor = Div(Number(1), locals.a)
        /\ \A w \in Weights, d \in Doses :
              SameFunction(WithWeightDose(df, w, d), "ACT").ret = factor

\* C5 (amended): in ACT mode calc_factor returns 1 / decay_factor, and the
\* result is the same for every header that differs from this one only in
\* PatientWeight (value or presence) and in the value of RadionuclideTotalDose,
\* the dose being present and parsable in both or in neither.
C5_ActIndependentGivenDosePresence ==
    (AfterCalcFactor /\ type = "ACT") =>
        /\ factor = Div(Number(1), locals.a)
        /\ \A w \in Weights, d \in Doses :
              (d.k = "num") = (DoseOf(df).k = "num") =>
                  SameFunction(WithWeightDose(df, w, d), "ACT").ret = factor

C5_Witness ==
    /\ pc = "calc_factor"
    /\ type = "ACT"
    /\ locals.measured
    /\ df.PatientWeight = Num(60)
    /\ DoseOf(df) = Num(1000)
    /\ factor = Real(1, 1, 6300, 3150)

\* C6: with PatientWeight absent or unparsable calc_factor returns normally,
\* warns, and in SUV mode returns what it returns for the same header with a
\* weight of 75 kg (75 000 g), on the measured and on the fallback path.
C6_MissingWeightIs75kg ==
    (AfterCalcFactor /\ type = "SUV" /\ df.PatientWeight.k # "num") =>
        /\ \E i \in DOMAIN warnings : warnings[i] = WeightWarning
        /\ locals.weight = 75000
        /\ factor = SameFunction([df EXCEPT !.PatientWeight = Num(75)], "SUV").ret

C6_Witness ==
    /\ pc = "calc_factor"
    /\ type = "SUV"
    /\ df.PatientWeight = Garbage
    /\ locals.measured
    /\ DoseOf(df) = Num(1000)
    /\ factor = Real(75, 1, 6300, 3150)

AllFourParsable(h) ==
    /\ ~strptime(h.AcquisitionTime).raised
    /\ h.RadiopharmaceuticalInformationSequence # <<>>
    /\ LET it == h.RadiopharmaceuticalInformationSequence[1] IN
          /\ ~strptime(it.RadiopharmaceuticalStartTime).raised
          /\ it.RadionuclideHalfLife.k = "num"
          /\ it.RadionuclideTotalDose.k = "num"

UsesMeasured ==
    LET it == df.RadiopharmaceuticalInformationSequence[1] IN
        /\ locals.measured
        /\ \A i \in DOMAIN warnings : warnings[i] # DataWarning
        /\ locals.half_life = it.RadionuclideHalfLife.v
        /\ locals.dose = it.RadionuclideTotalDose.v
        /\ locals.a = Real(1, 1, -locals.seconds, locals.half_life)
        /\ locals.injected_dose_decay = Mul(Number(locals.dose), locals.a)

UsesFallback ==
    /\ ~locals.measured
    /\ \E i \in DOMAIN warnings : warnings[i] = DataWarning
    /\ locals.seconds = 6300
    /\ locals.half_life = 6588
    /\ locals.dose = 420000000
    /\ locals.a = Real(1, 1, -6300, 6588)
    /\ locals.injected_dose_decay = Mul(Number(420000000), locals.a)

\* C7 (as stated): calc_factor takes the measured path when the four timing
\* and dose fields are all present and parsable, and otherwise warns and
\* takes the fallback (6300 s, 6588 s, 420 000 000 Bq) for all of them.
C7_MeasuredIffAllParsable ==
    AfterCalcFactor =>
        IF AllFourParsable(df) THEN UsesMeasured ELSE UsesFallback

\* C7 (amended): calc_factor takes the measured path when the four fields are
\* all present and parsable and the half-life is not zero, and otherwise (a
\* field absent or unparsable, or a half-life of zero) warns and takes the
\* fallback (6300 s, 6588 s, 420 000 000 Bq) for all of them; measured and
\* fallback values are never mixed.
C7_MeasuredIffAllParsableNonzero ==
    AfterCalcFactor =>
        IF /\ AllFourParsable(df)
           /\ df.RadiopharmaceuticalInformationSequence[1].RadionuclideHalfLife.v # 0
        THEN UsesMeasured
        ELSE UsesFallback

C7_Witness ==
    /\ pc = "PET.calc_factor"
    /\ AllFourParsable(df)
    /\ df.RadiopharmaceuticalInformationSequence[1].RadionuclideHalfLife = Num(0)
    /\ ~locals.measured
    /\ locals.a = Real(1, 1, -175, 183)

\* C9: on the measured path the seconds put into the exponent are
\* AcquisitionTime - RadiopharmaceuticalStartTime, for every pair of times of
\* day: the whole seconds differ by that amount and no fraction is left over.
C9_ElapsedIsDifference ==
    (AfterCalcFactor /\ locals.measured) =>
        LET scan == strptime(df.AcquisitionTime)
            inj == strptime(df.RadiopharmaceuticalInformationSequence[1]
                                .RadiopharmaceuticalStartTime)
        IN  /\ locals.seconds =
                   (scan.hour * 3600 + scan.minute * 60 + scan.second)
                   - (inj.hour * 3600 + inj.minute * 60 + inj.second)
            /\ scan.microsecond = inj.microsecond

----------------------------------------------------------------------------
(* The PET object: construction, then any calls of its methods *)

MaxCalls == 3

Ramp(shape, k) == [ix \in Indices(shape) |-> k * ix[1] + ix[3] - 2]

PetHeaders ==
    {Header(w, Time(11, 45, 0, <<0>>),
            <<Item(Time(10, 0, 0, <<0>>), Num(3150), Num(1000))>>, t0, NoTag) :
        w \in {Absent, Num(60)}, t0 \in {NoTag, Tag(2)}}
PetImages ==
    {Image(0, <<2, 1, 2>>, Ramp(<<2, 1, 2>>, -3)),
     Image(1, <<3, 1, 1>>, Ramp(<<3, 1, 1>>, 2))}
CtImages ==
    {Image(0, <<2, 1, 2>>, Ramp(<<2, 1, 2>>, 5)),
     Image(1, <<2, 1, 1>>, Ramp(<<2, 1, 1>>, 7)),
     Image(-1, <<3, 1, 2>>, Ramp(<<3, 1, 2>>, 1))}
SliceNumbers == {-1, 0, 2, 3}
\* a PET built by PET.from_dicom_pet
InitPET ==
    /\ pc = "PET"
    /\ \E h \in PetHeaders, ty \in Types, pet \in PetImages :
          \E r \in {PET_from_dicom_pet(h, ty, pet)} :
          self = PET_init(r.img_pet, r.df, r.factor, r.calc, r.metadata)
    /\ created = self
    /\ refs = <<>>
    /\ shown = NotShown
    /\ IdleFactor
    /\ IdleMask
    /\ IdleData

Call_resample_pet ==
    /\ Len(refs) < MaxCalls
    /\ \E ct_scan \in CtImages :
          /\ self' = resample_pet(self, ct_scan).self
          /\ refs' = Append(refs, ct_scan)
    /\ UNCHANGED <<pc, created, shown, factorVars, maskVars, dataVars>>

Call_show_overlay ==
    /\ Len(refs) < MaxCalls
    /\ \E ct_scan \in CtImages, slice_number \in SliceNumbers :
          \E r \in {show_overlay(self, ct_scan, slice_number)} :
          /\ self' = r.self
          /\ shown' = [raised |-> r.raised, slice |-> r.slice]
          /\ refs' = Append(refs, ct_scan)
    /\ UNCHANGED <<pc, created, factorVars, maskVars, dataVars>>

Call_get_metadata ==
    /\ self' = get_metadata(self).self
    /\ UNCHANGED <<pc, created, refs, shown, factorVars, maskVars, dataVars>>

NextPET ==
    \/ Call_resample_pet
    \/ Call_show_overlay
    \/ Call_get_metadata

SpecPET == InitPET /\ [][NextPET]_vars

\* C10: resampled_pt is None from construction until the first resample_pet
\* call; after any calls (show_overlay's included) it is the resampling of the
\* object's image onto the most recent reference, on that reference's grid;
\* and img_pet, df, factor and calc stay as constructed.
C10_CacheHoldsLatestOnly ==
    /\ refs = <<>> => self.resampled_pt = <<>>
    /\ refs # <<>> =>
          LET last == refs[Len(refs)] IN
          /\ Len(self.resampled_pt) = 1
          /\ self.resampled_pt[1].shape = last.shape
          /\ self.resampled_pt[1].origin = last.origin
          /\ self.resampled_pt[1] = Resample(created.img_pet, last)
    /\ self.img_pet = created.img_pet
    /\ self.df = created.df
    /\ self.factor = created.factor
    /\ self.calc = created.calc

C10_Witness ==
    /\ Len(refs) = 3
    /\ refs[1].shape # refs[3].shape
    /\ refs[2].shape # refs[3].shape
    /\ shown.slice > 0
    /\ self.resampled_pt = <<Resample(created.img_pet, refs[3])>>
    /\ self.resampled_pt # <<Resample(created.img_pet, refs[1])>>

----------------------------------------------------------------------------
(* get_tiff_masks_as_numpy on lists of mask files *)

MaxPaths == 3

MaskNames == {"L2", "N2", "R2", "H2", "L1", "M3", "gone"}
MaskPaths == {Root \o <<name, ".tif">> : name \in MaskNames}
MaskShapes == {<<2, 1, 2>>}
Epsilons == {DefaultEpsilon, <<3, 2>>}

RECURSIVE SeqsUpTo(_, _)
SeqsUpTo(S, n) ==
    IF n = 0 THEN {<<>>}
    ELSE LET shorter == SeqsUpTo(S, n - 1)
         IN  shorter \cup {Append(q, x) : q \in {t \in shorter : Len(t) = n - 1}, x \in S}

InitMask ==
    /\ pc = "start"
    /\ paths \in SeqsUpTo(MaskPaths, MaxPaths)
    /\ mask_shape \in MaskShapes
    /\ epsilon \in Epsilons
    /\ mask = <<>>
    /\ mask_error = ""
    /\ IdleFactor
    /\ IdlePET
    /\ IdleData

Call_get_tiff_masks_as_numpy ==
    /\ pc = "start"
    /\ \E r \in {get_tiff_masks_as_numpy(paths, mask_shape, epsilon)} :
          /\ mask' = r.ret
          /\ mask_error' = r.raised
          /\ pc' = IF r.raised = "" THEN "get_tiff_masks_as_numpy" ELSE "raised"
    /\ UNCHANGED <<paths, mask_shape, epsilon, factorVars, petVars, dataVars>>

NextMask == Call_get_tiff_masks_as_numpy

SpecMask == InitMask /\ [][NextMask]_vars

PermutationsOf(q) ==
    {[k \in DOMAIN q |-> q[f[k]]] : f \in {g \in [DOMAIN q -> DOMAIN q] :
                                              \A i, j \in DOMAIN q : g[i] = g[j] => i = j}}

AllOfShape(ps, shape) ==
    \A k \in DOMAIN ps : FS(ps[k]).kind = "tiff" /\ FS(ps[k]).array.shape = shape

\* C8: for mask images of the target shape, get_tiff_masks_as_numpy returns
\* the same mask, voxel for voxel, for every permutation of the path list
\* (same mask_shape and epsilon), and every voxel of it is 0 or 1.
C8_MaskOrderIndependent ==
    (pc # "start" /\ AllOfShape(paths, mask_shape)) =>
        /\ mask_error = ""
        /\ Len(mask) = 1
        /\ mask[1].shape = mask_shape
        /\ \A ix \in Indices(mask_shape) : mask[1].at[ix] \in {0, 1}
        /\ \A q \in PermutationsOf(paths) :
              get_tiff_masks_as_numpy(q, mask_shape, epsilon).ret = mask

C8_Witness ==
    /\ pc = "get_tiff_masks_as_numpy"
    /\ paths = <<Root \o <<"L2", ".tif">>, Root \o <<"N2", ".tif">>, Root \o <<"R2", ".tif">>>>
    /\ epsilon = DefaultEpsilon
    /\ mask = <<Tiff(<<<<1, 1>>, <<1, 0>>>>)>>

----------------------------------------------------------------------------
(* generate_data on tables of patient records *)

MaxPatients == 3

Patients ==
    {<<"A_CT", "A_PT", "L2", "N2", "R2">>,
     <<"B_CT", "A_PT", "N2", "N2", "H2">>,
     <<"B_CT", "B_PT", "L1", "L1", "L1">>,
     <<"A_CT", "C_PT", "K2", "K2", "K2">>,
     <<"A_CT", "gone", "L2", "N2", "R2">>,
     <<"A_CT", "A_PT", "L2", "M3", "R2">>}

InitData ==
    /\ pc = "generate_data"
    /\ root_path = Root
    /\ patient_table \in SeqsUpTo(Patients, MaxPatients)
    /\ data = <<>>
    /\ done = 0
    /\ attempted = <<>>
    /\ stacked = <<>>
    /\ returned = <<>>
    /\ error = ""
    /\ IdleFactor
    /\ IdlePET
    /\ IdleMask

\* a failing record skipped: the loop goes on with the next one
generate_data_iteration_skip ==
    /\ pc = "generate_data"
    /\ done < Len(patient_table)
    /\ \E r \in {generate_data_body(root_path, data, patient_table[done + 1])} :
          /\ attempted' = Append(attempted, done + 1)
          /\ done' = done + 1
          /\ IF r.raised # ""
             THEN /\ error' = r.raised
                  /\ UNCHANGED <<data, stacked>>
             ELSE /\ data' = <<r.data>>
                  /\ stacked' = <<r.stacked>>
                  /\ UNCHANGED error
    /\ UNCHANGED <<pc, root_path, patient_table, returned, factorVars, petVars, maskVars>>

\* one iteration of the for loop; an exception leaves generate_data
generate_data_iteration ==
    /\ pc = "generate_data"
    /\ done < Len(patient_table)
    /\ \E r \in {generate_data_body(root_path, data, patient_table[done + 1])} :
          /\ attempted' = Append(attempted, done + 1)
          /\ IF r.raised # ""
             THEN /\ error' = r.raised
                  /\ pc' = "raised"
                  /\ UNCHANGED <<data, done, stacked>>
             ELSE /\ data' = <<r.data>>
                  /\ stacked' = <<r.stacked>>
                  /\ done' = done + 1
                  /\ UNCHANGED <<pc, error>>
    /\ UNCHANGED <<root_path, patient_table, returned, factorVars, petVars, maskVars>>

\* return data, after the last record
generate_data_return ==
    /\ pc = "generate_data"
    /\ done = Len(patient_table)
    /\ returned' = <<data>>
    /\ pc' = "returned"
    /\ UNCHANGED <<root_path, patient_table, data, done, attempted, stacked, error,
                   factorVars, petVars, maskVars>>

NextData ==
    \/ generate_data_iteration
    \/ generate_data_return

SpecData == InitData /\ [][NextData]_vars

\* the shape of the PET volume of a record, <<>> when its directory is no series
PetShapeOf(patient) ==
    LET f == FS(root_path \o <<patient[2]>>) IN
    IF f.kind = "dicom" THEN f.image.shape ELSE <<>>

SameShapeTable(shape) ==
    /\ Len(patient_table) >= 1
    /\ Len(shape) = 3
    /\ \A i \in DOMAIN patient_table : PetShapeOf(patient_table[i]) = shape

RECURSIVE Offset(_)
Offset(i) == IF i = 1 THEN 0 ELSE Offset(i - 1) + PetShapeOf(patient_table[i - 1])[1]

\* a[i] of numpy: the sub-array at index i of axis 0
SubArray(a, i) ==
    LET shape == Tail(a.shape)
    IN  Array(shape, [ix \in Indices(shape) |-> a.at[<<i>> \o ix]])

C3_FailureAbortsBatch ==
    /\ error # "" =>
          /\ pc = "raised"
          /\ returned = <<>>
          /\ attempted = [k \in 1..(done + 1) |-> k]
          /\ ~ENABLED NextData
    /\ pc = "raised" => error # ""
    /\ returned # <<>> =>
          /\ error = ""
          /\ done = Len(patient_table)
          /\ attempted = [k \in 1..Len(patient_table) |-> k]
          /\ returned[1] = data

C3_Witness ==
    /\ pc = "raised"
    /\ error = "ValueError"
    /\ Len(patient_table) = 3
    /\ done = 1
    /\ data # <<>>
    /\ returned = <<>>
    /\ PatientArrays(root_path, patient_table[3]).raised = ""

====
